---- MODULE Spec2Model ----
(***************************************************************************)
(* Model of hyena_monitor.py: VaultCapMonitor polls the vault's            *)
(* maxDepositAmount, compares it as a Python float with the stored         *)
(* previous_cap, prints a change block and posts a webhook on a change.    *)
(*                                                                         *)
(* The on-chain values are uint256 wei and the Python floats are IEEE-754  *)
(* doubles, so natural numbers are kept as little-endian sequences of      *)
(* limbs (arbitrary precision) and a float is sign, 53-bit mantissa and    *)
(* exponent, rounded to nearest, ties to even.                             *)
(***************************************************************************)
EXTENDS Integers, Sequences, FiniteSets, TLC

----------------------------------------------------------------------------
(* Arbitrary-precision naturals: <<l1, l2, ...>> is l1 + l2*Base + ...,    *)
(* with no leading (last) zero limb; <<>> is 0.                            *)

LimbBits == 15
Base == 2^LimbBits

Hd(a) == IF a = <<>> THEN 0 ELSE Head(a)
Tl(a) == IF a = <<>> THEN <<>> ELSE Tail(a)

RECURSIVE BFromInt(_)
BFromInt(n) == IF n = 0 THEN <<>> ELSE <<n % Base>> \o BFromInt(n \div Base)

RECURSIVE BNorm(_)
BNorm(a) ==
    IF a = <<>> THEN <<>>
    ELSE IF a[Len(a)] = 0 THEN BNorm(SubSeq(a, 1, Len(a) - 1))
    ELSE a

RECURSIVE BAddC(_, _, _)
BAddC(a, b, c) ==
    IF a = <<>> /\ b = <<>> THEN (IF c = 0 THEN <<>> ELSE <<c>>)
    ELSE LET s == Hd(a) + Hd(b) + c
         IN  <<s % Base>> \o BAddC(Tl(a), Tl(b), s \div Base)

BAdd(a, b) == BAddC(a, b, 0)

RECURSIVE BSubC(_, _, _)
\* a - b - c for a >= b + c, not normalised
BSubC(a, b, c) ==
    IF a = <<>> THEN <<>>
    ELSE LET s == Hd(a) - Hd(b) - c
         IN  IF s < 0 THEN <<s + Base>> \o BSubC(Tl(a), Tl(b), 1)
             ELSE <<s>> \o BSubC(Tl(a), Tl(b), 0)

BSub(a, b) == BNorm(BSubC(a, b, 0))

RECURSIVE BCmpAt(_, _, _)
BCmpAt(a, b, i) ==
    IF i = 0 THEN 0
    ELSE IF a[i] > b[i] THEN 1
    ELSE IF a[i] < b[i] THEN -1
    ELSE BCmpAt(a, b, i - 1)

\* -1, 0, 1 as a < b, a = b, a > b (both normalised)
BCmp(a, b) ==
    IF Len(a) > Len(b) THEN 1
    ELSE IF Len(a) < Len(b) THEN -1
    ELSE BCmpAt(a, b, Len(a))

RECURSIVE BMulC(_, _, _)
\* a * k + c for 0 <= k <= Base
BMulC(a, k, c) ==
    IF a = <<>> THEN BFromInt(c)
    ELSE LET s == Head(a) * k + c
         IN  <<s % Base>> \o BMulC(Tail(a), k, s \div Base)

BMulSmall(a, k) == BNorm(BMulC(a, k, 0))

RECURSIVE BPow10(_)
BPow10(k) == IF k = 0 THEN <<1>> ELSE BMulSmall(BPow10(k - 1), 10)

\* a * 2^n
BShl(a, n) ==
    IF a = <<>> THEN <<>>
    ELSE [i \in 1..(n \div LimbBits) |-> 0] \o BMulSmall(a, 2^(n % LimbBits))

\* a \div 2^n
BShr(a, n) ==
    LET ld == n \div LimbBits
        s  == n % LimbBits
        at(i) == IF i > Len(a) THEN 0 ELSE a[i]
    IN  BNorm([i \in 1..(Len(a) - ld) |->
                 at(i + ld) \div 2^s + (at(i + ld + 1) % 2^s) * 2^(LimbBits - s)])

\* a % 2^n
BLow(a, n) ==
    LET ld == n \div LimbBits
        s  == n % LimbBits
    IN  IF ld >= Len(a) THEN a
        ELSE BNorm(SubSeq(a, 1, ld) \o <<a[ld + 1] % 2^s>>)

RECURSIVE IntBitLen(_)
IntBitLen(n) == IF n = 0 THEN 0 ELSE 1 + IntBitLen(n \div 2)

BBitLen(a) ==
    IF a = <<>> THEN 0 ELSE LimbBits * (Len(a) - 1) + IntBitLen(a[Len(a)])

BIsOdd(a) == Hd(a) % 2 = 1

RECURSIVE QDigit(_, _, _, _)
\* the largest k below Base with d * k <= r, found from bit b downwards
QDigit(r, d, b, k) ==
    IF b < 0 THEN k
    ELSE LET k2 == k + 2^b
         IN  IF BCmp(BMulSmall(d, k2), r) <= 0
             THEN QDigit(r, d, b - 1, k2)
             ELSE QDigit(r, d, b - 1, k)

RECURSIVE BDivStep(_, _, _, _, _)
\* schoolbook long division from limb i of n downwards; q and r are the
\* quotient and remainder of the limbs above i
BDivStep(n, d, i, q, r) ==
    IF i = 0 THEN [q |-> BNorm(q), r |-> r]
    ELSE LET r2 == BNorm(<<n[i]>> \o r)
             k  == QDigit(r2, d, LimbBits - 1, 0)
             r3 == BSub(r2, BMulSmall(d, k))
         IN  \* r3 < d by the choice of k; the test also has r3 evaluated
             \* at this limb instead of at the last one
             IF BCmp(r3, d) < 0 THEN BDivStep(n, d, i - 1, <<k>> \o q, r3)
             ELSE BDivStep(n, d, i - 1, <<k + 1>> \o q, BSub(r3, d))

\* quotient and remainder of n by d, d > 0
BDivMod(n, d) == BDivStep(n, d, Len(n), <<>>, <<>>)

----------------------------------------------------------------------------
(* Python float: IEEE-754 binary64.  A float is sgn * m * 2^e with         *)
(* 2^52 <= m < 2^53, or the zero below.  Caps are at most 2^256 / 10^18    *)
(* and at least 10^-18, so neither overflow nor subnormals occur.          *)

MantBits == 53

FZero == [sgn |-> 1, m |-> <<>>, e |-> 0]

\* sgn * n * 2^e (plus a non-zero fraction of the last unit of n when
\* sticky) rounded to the nearest float, ties to even
RoundBig(sgn, n, sticky, e) ==
    LET L == BBitLen(n)
    IN  IF L = 0 THEN FZero
        ELSE IF L <= MantBits
        THEN [sgn |-> sgn, m |-> BShl(n, MantBits - L), e |-> e - (MantBits - L)]
        ELSE LET d    == L - MantBits
                 hi   == BShr(n, d)
                 lo   == BLow(n, d)
                 half == BShl(<<1>>, d - 1)
                 c    == BCmp(lo, half)
                 up   == \/ c > 0
                         \/ c = 0 /\ (sticky \/ BIsOdd(hi))
                 q2   == IF up THEN BAdd(hi, <<1>>) ELSE hi
             IN  IF BBitLen(q2) > MantBits
                 THEN [sgn |-> sgn, m |-> BShl(<<1>>, MantBits - 1), e |-> e + d + 1]
                 ELSE [sgn |-> sgn, m |-> q2, e |-> e + d]

\* sgn * (p / q) * 2^e rounded to the nearest float, p >= 0, q > 0
RoundRatio(sgn, p, q, e) ==
    IF p = <<>> THEN FZero
    ELSE LET k  == BBitLen(p) - BBitLen(q)
             sh == MantBits + 2 - k
             N  == IF sh >= 0 THEN BShl(p, sh) ELSE p
             D  == IF sh >= 0 THEN q ELSE BShl(q, 0 - sh)
             qr == BDivMod(N, D)
         IN  RoundBig(sgn, qr.q, qr.r # <<>>, e - sh)

\* float(n) for a small integer n
FInt(n) == IF n < 0 THEN RoundBig(-1, BFromInt(0 - n), FALSE, 0)
           ELSE RoundBig(1, BFromInt(n), FALSE, 0)

\* a - b on floats
FSub(a, b) ==
    IF a.m = <<>> /\ b.m = <<>> THEN FZero
    ELSE LET e  == IF a.m = <<>> THEN b.e
                   ELSE IF b.m = <<>> THEN a.e
                   ELSE IF a.e < b.e THEN a.e ELSE b.e
             A  == BShl(a.m, a.e - e)
             B  == BShl(b.m, b.e - e)
         IN  IF a.sgn = b.sgn
             THEN (IF BCmp(A, B) >= 0
                   THEN RoundBig(a.sgn, BSub(A, B), FALSE, e)
                   ELSE RoundBig(0 - a.sgn, BSub(B, A), FALSE, e))
             ELSE RoundBig(a.sgn, BAdd(A, B), FALSE, e)

\* a / b on floats, b non-zero
FDiv(a, b) == RoundRatio(a.sgn * b.sgn, a.m, b.m, a.e - b.e)

\* a * k on floats, k a small non-negative integer
FMulInt(a, k) == RoundBig(a.sgn, BMulSmall(a.m, k), FALSE, a.e)

----------------------------------------------------------------------------
(* The program.                                                            *)

\* values are records throughout, so that any two of them can be compared
None == [k |-> "None"]
NA   == [k |-> "N/A"]
Url  == [k |-> "url"]

EtherDecimals == 18
WeiPerEther == BPow10(EtherDecimals)

\* n * 10^k wei
Wei(n, k) == BMulSmall(BPow10(k), n)

\* number of calls of check_cap_change a run is followed for
MaxCycles == 4

\* values maxDepositAmount() may return: 0, 1 ether, 1 ether + 1 wei, 2 ether
Caps == { <<>>, Wei(1, 18), BAdd(Wei(1, 18), <<1>>), Wei(2, 18) }
\* the caps of the end-to-end scenario: 1,000,000 twice, 1,200,000 twice
ScenarioCaps == << Wei(1, 24), Wei(1, 24), Wei(12, 23), Wei(12, 23) >>
\* value totalAssets() returns when it succeeds
AssetsWei == Wei(5, 17)
\* value maxTokenSupply() returns when it succeeds
SupplyWei == Wei(3, 18)

\* caps for the arithmetic of a change: 100, 150 and 90 ether, and 1 wei
ArithCaps == { Wei(100, 18), Wei(150, 18), Wei(90, 18), <<1>> }

AllCaps == Caps \cup { ScenarioCaps[i] : i \in DOMAIN ScenarioCaps }
                \cup ArithCaps

\* from_wei(number, 'ether'): the Decimal number / 10^18, kept as num / den
from_wei(number) == [num |-> number, den |-> WeiPerEther]

Decimals == { from_wei(w) : w \in AllCaps }

\* float(x) of a Decimal x, tabulated over the Decimals of the model
float == [x \in Decimals |-> RoundRatio(1, x.num, x.den, 0)]

Floats == { float[x] : x \in Decimals }

\* (new - old) / old, the factor 100 left out
PercentAsFraction == [new \in Floats, old \in Floats \ {FZero} |->
                          FDiv(FSub(new, old), old)]

\* old - new
MinusSwapped == [new \in Floats, old \in Floats |-> FSub(old, new)]

\* new - old and (new - old) / old * 100 on the floats of the model, tabulated
Minus == [new \in Floats, old \in Floats |-> FSub(new, old)]
Percent == [new \in Floats, old \in Floats \ {FZero} |->
                FMulInt(FDiv(FSub(new, old), old), 100)]

VARIABLES
    pc,            \* position of the process
    WEBHOOK_URL,   \* CONFIG['WEBHOOK_URL']
    previous_cap,  \* self.previous_cap
    current_cap,   \* locals of check_cap_change
    total_assets,
    max_supply,
    data,          \* the dict handed to send_webhook_notification
    out,           \* console output since the process started or since the
                   \* last sleep ended, one entry per group of prints
    posts,         \* requests.post calls made in the same period
    cycle,         \* number of calls of check_cap_change so far
    cancel,        \* the main task has a cancellation pending
    exit,          \* how the process ended
    sampled,       \* history: what get_current_cap returned the last time
                   \* it succeeded in an earlier call of check_cap_change
    recorded       \* history: the cap last reported in an earlier call, as
                   \* the initial cap or as the new cap of a change block

vars == <<pc, WEBHOOK_URL, previous_cap, current_cap, total_assets,
          max_supply, data, out, posts, cycle, cancel, exit, sampled, recorded>>

locals == <<current_cap, total_assets, max_supply, data>>

Emit(line) == out' = Append(out, line)
Emit2(l1, l2) == out' = out \o <<l1, l2>>

ResetLocals ==
    /\ current_cap' = None
    /\ total_assets' = None
    /\ max_supply' = None
    /\ data' = None

Init ==
    /\ pc = "main"
    /\ WEBHOOK_URL \in {None, Url}
    /\ previous_cap = None
    /\ current_cap = None
    /\ total_assets = None
    /\ max_supply = None
    /\ data = None
    /\ out = <<>>
    /\ posts = <<>>
    /\ cycle = 0
    /\ cancel = FALSE
    /\ exit = "running"
    /\ sampled = None
    /\ recorded = None

\* start sleeping one interval before the first check_cap_change
ConnectSleepsFirst ==
    /\ pc = "main"
    /\ previous_cap' = None
    /\ Emit2([k |-> "connected"], [k |-> "started"])
    /\ pc' = "sleep"
    /\ UNCHANGED <<WEBHOOK_URL, locals, posts, cycle, cancel, exit, sampled, recorded>>

\* main, __init__ and start up to the first check_cap_change
Connect ==
    /\ pc = "main"
    /\ previous_cap' = None
    /\ Emit2([k |-> "connected"], [k |-> "started"])
    /\ cycle' = 1
    /\ pc' = "get_cap"
    /\ UNCHANGED <<WEBHOOK_URL, locals, posts, cancel, exit, sampled, recorded>>

\* __init__ raises, main prints the fatal error and returns
ConnectFail ==
    /\ pc = "main"
    /\ Emit([k |-> "fatal"])
    /\ pc' = "exited"
    /\ exit' = "returned"
    /\ UNCHANGED <<WEBHOOK_URL, previous_cap, locals, posts, cycle, cancel, sampled, recorded>>

\* get_current_cap returns
GetCurrentCap(wei) ==
    /\ pc = "get_cap"
    /\ current_cap' = from_wei(wei)
    /\ pc' = "get_assets"
    /\ UNCHANGED <<WEBHOOK_URL, previous_cap, total_assets, max_supply, data,
                   out, posts, cycle, cancel, exit, sampled, recorded>>

\* get_current_cap raises and check_cap_change has no handler: the error
\* reaches main, which prints it as fatal and returns
GetCurrentCapFailFatal ==
    /\ pc = "get_cap"
    /\ Emit2([k |-> "fetch_error"], [k |-> "fatal"])
    /\ pc' = "exited"
    /\ exit' = "returned"
    /\ ResetLocals
    /\ UNCHANGED <<WEBHOOK_URL, previous_cap, posts, cycle, cancel, sampled, recorded>>

\* get_current_cap raises and the handler forgets the stored cap
GetCurrentCapFailForgets ==
    /\ pc = "get_cap"
    /\ Emit2([k |-> "fetch_error"], [k |-> "error", ts |-> cycle])
    /\ previous_cap' = None
    /\ pc' = "sleep"
    /\ ResetLocals
    /\ UNCHANGED <<WEBHOOK_URL, posts, cycle, cancel, exit, sampled, recorded>>

\* get_current_cap raises: its own print, then the handler of
\* check_cap_change prints the error and the call is over
GetCurrentCapFail ==
    /\ pc = "get_cap"
    /\ Emit2([k |-> "fetch_error"], [k |-> "error", ts |-> cycle])
    /\ pc' = "sleep"
    /\ ResetLocals
    /\ UNCHANGED <<WEBHOOK_URL, previous_cap, posts, cycle, cancel, exit, sampled, recorded>>

GetTotalAssets ==
    /\ pc = "get_assets"
    /\ total_assets' = from_wei(AssetsWei)
    /\ pc' = "get_supply"
    /\ UNCHANGED <<WEBHOOK_URL, previous_cap, current_cap, max_supply, data,
                   out, posts, cycle, cancel, exit, sampled, recorded>>

GetTotalAssetsFail ==
    /\ pc = "get_assets"
    /\ total_assets' = NA
    /\ pc' = "get_supply"
    /\ UNCHANGED <<WEBHOOK_URL, previous_cap, current_cap, max_supply, data,
                   out, posts, cycle, cancel, exit, sampled, recorded>>

GetMaxTokenSupply ==
    /\ pc = "get_supply"
    /\ max_supply' = from_wei(SupplyWei)
    /\ pc' = "compare"
    /\ UNCHANGED <<WEBHOOK_URL, previous_cap, current_cap, total_assets, data,
                   out, posts, cycle, cancel, exit, sampled, recorded>>

GetMaxTokenSupplyFail ==
    /\ pc = "get_supply"
    /\ max_supply' = NA
    /\ pc' = "compare"
    /\ UNCHANGED <<WEBHOOK_URL, previous_cap, current_cap, total_assets, data,
                   out, posts, cycle, cancel, exit, sampled, recorded>>

\* the "Checking vault..." lines
CheckLine ==
    [k |-> "check", ts |-> cycle, cap |-> current_cap,
     total_assets |-> total_assets, max_supply |-> max_supply]

\* self.previous_cap is None
IsInitial == previous_cap = None

\* float(current_cap) != self.previous_cap
IsChanged == float[current_cap] # previous_cap

\* the value assigned to self.previous_cap
Stored == float[current_cap]

\* first sample, printed but not stored
CheckInitialUnstored ==
    /\ pc = "compare"
    /\ IsInitial
    /\ Emit2(CheckLine, [k |-> "initial", cap |-> current_cap])
    /\ pc' = "sleep"
    /\ ResetLocals
    /\ UNCHANGED <<WEBHOOK_URL, previous_cap, posts, cycle, cancel, exit, sampled, recorded>>

\* first sample
CheckInitial ==
    /\ pc = "compare"
    /\ IsInitial
    /\ Emit2(CheckLine, [k |-> "initial", cap |-> current_cap])
    /\ previous_cap' = Stored
    /\ pc' = "sleep"
    /\ ResetLocals
    /\ UNCHANGED <<WEBHOOK_URL, posts, cycle, cancel, exit, sampled, recorded>>

\* neither branch is taken
CheckNoChange ==
    /\ pc = "compare"
    /\ ~IsInitial
    /\ ~IsChanged
    /\ Emit(CheckLine)
    /\ pc' = "sleep"
    /\ ResetLocals
    /\ UNCHANGED <<WEBHOOK_URL, previous_cap, posts, cycle, cancel, exit, sampled, recorded>>

\* change / self.previous_cap raises ZeroDivisionError
DivisorIsZero == previous_cap = FZero

Change == Minus[float[current_cap], previous_cap]

ChangePercent == Percent[float[current_cap], previous_cap]

ChangeData ==
    [old_cap |-> previous_cap, new_cap |-> float[current_cap],
     change |-> Change, change_percent |-> ChangePercent,
     timestamp |-> cycle, total_assets |-> total_assets,
     max_supply |-> max_supply]

\* the division raises: nothing of the change block is printed, the handler
\* prints the error and the call is over
CheckZeroDivision ==
    /\ pc = "compare"
    /\ ~IsInitial
    /\ IsChanged
    /\ DivisorIsZero
    /\ Emit2(CheckLine, [k |-> "error", ts |-> cycle])
    /\ pc' = "sleep"
    /\ ResetLocals
    /\ UNCHANGED <<WEBHOOK_URL, previous_cap, posts, cycle, cancel, exit, sampled, recorded>>

\* the change block is printed, send_webhook_notification is called next
CheckChanged ==
    /\ pc = "compare"
    /\ ~IsInitial
    /\ IsChanged
    /\ ~DivisorIsZero
    /\ Emit2(CheckLine, [k |-> "change", ev |-> ChangeData])
    /\ data' = ChangeData
    /\ pc' = "notify"
    /\ UNCHANGED <<WEBHOOK_URL, previous_cap, current_cap, total_assets,
                   max_supply, posts, cycle, cancel, exit, sampled, recorded>>

\* send_webhook_notification without a webhook: returns at once
NotifyNone ==
    /\ pc = "notify"
    /\ WEBHOOK_URL = None
    /\ pc' = "commit"
    /\ UNCHANGED <<WEBHOOK_URL, previous_cap, locals, out, posts, cycle,
                   cancel, exit, sampled, recorded>>

NotifyLine(outcome) ==
    IF outcome = "ok" THEN [k |-> "notified"]
    ELSE IF outcome = "status" THEN [k |-> "notify_status"]
    ELSE [k |-> "notify_error"]

\* send_webhook_notification without its try/except: a request that raises
\* ends check_cap_change in its handler, before previous_cap is assigned
NotifyPropagates(outcome) ==
    /\ pc = "notify"
    /\ WEBHOOK_URL # None
    /\ posts' = Append(posts, [url |-> WEBHOOK_URL, data |-> data,
                               outcome |-> outcome])
    /\ IF outcome = "raised"
       THEN /\ Emit([k |-> "error", ts |-> cycle])
            /\ pc' = "sleep"
            /\ ResetLocals
       ELSE /\ Emit(NotifyLine(outcome))
            /\ pc' = "commit"
            /\ UNCHANGED locals
    /\ UNCHANGED <<WEBHOOK_URL, previous_cap, cycle, cancel, exit, sampled, recorded>>

\* send_webhook_notification posting again when the first request fails
NotifyRetries(outcome) ==
    /\ pc = "notify"
    /\ WEBHOOK_URL # None
    /\ posts' = IF outcome = "ok"
                THEN Append(posts, [url |-> WEBHOOK_URL, data |-> data,
                                    outcome |-> outcome])
                ELSE posts \o << [url |-> WEBHOOK_URL, data |-> data,
                                  outcome |-> outcome],
                                 [url |-> WEBHOOK_URL, data |-> data,
                                  outcome |-> outcome] >>
    /\ Emit(NotifyLine(outcome))
    /\ pc' = "commit"
    /\ UNCHANGED <<WEBHOOK_URL, previous_cap, locals, cycle, cancel, exit, sampled, recorded>>

\* send_webhook_notification with a webhook: one requests.post, which
\* answers 2xx ("ok"), answers another status, or raises
Notify(outcome) ==
    /\ pc = "notify"
    /\ WEBHOOK_URL # None
    /\ posts' = Append(posts, [url |-> WEBHOOK_URL, data |-> data,
                               outcome |-> outcome])
    /\ Emit(NotifyLine(outcome))
    /\ pc' = "commit"
    /\ UNCHANGED <<WEBHOOK_URL, previous_cap, locals, cycle, cancel, exit, sampled, recorded>>

\* the assignment after the notification left out
CommitSkipped ==
    /\ pc = "commit"
    /\ pc' = "sleep"
    /\ ResetLocals
    /\ UNCHANGED <<WEBHOOK_URL, previous_cap, out, posts, cycle, cancel, exit, sampled, recorded>>

\* self.previous_cap = float(current_cap) after the notification
Commit ==
    /\ pc = "commit"
    /\ previous_cap' = Stored
    /\ pc' = "sleep"
    /\ ResetLocals
    /\ UNCHANGED <<WEBHOOK_URL, out, posts, cycle, cancel, exit, sampled, recorded>>

\* the "check" entries of the output
CheckLines == SelectSeq(out, LAMBDA l : l.k = "check")

\* the change blocks printed: the ChangeEvents
Events == SelectSeq(out, LAMBDA l : l.k = "change")

Initials == SelectSeq(out, LAMBDA l : l.k = "initial")

\* await asyncio.sleep returns and the next check_cap_change begins
Sleep ==
    /\ pc = "sleep"
    /\ ~cancel
    /\ cycle < MaxCycles
    /\ cycle' = cycle + 1
    /\ pc' = "get_cap"
    /\ out' = <<>>
    /\ posts' = <<>>
    /\ sampled' = IF CheckLines = <<>> THEN sampled ELSE CheckLines[1].cap
    /\ recorded' = IF Events # <<>> THEN Events[1].ev.new_cap
                   ELSE IF Initials # <<>> THEN float[Initials[1].cap]
                   ELSE recorded
    /\ UNCHANGED <<WEBHOOK_URL, previous_cap, locals, cancel, exit>>

InCycle ==
    pc \in {"get_cap", "get_assets", "get_supply", "compare", "notify", "commit"}

\* SIGINT while check_cap_change runs, default handler: KeyboardInterrupt
\* is raised in the running code, passes every "except Exception" and is
\* caught in main
InterruptRaised ==
    /\ InCycle
    /\ ~cancel
    /\ Emit([k |-> "stopping"])
    /\ pc' = "exited"
    /\ exit' = "returned"
    /\ ResetLocals
    /\ UNCHANGED <<WEBHOOK_URL, previous_cap, posts, cycle, cancel, sampled, recorded>>

\* SIGINT while check_cap_change runs, handler of asyncio.run: the main
\* task is cancelled, which takes effect at its next await
InterruptDeferred ==
    /\ InCycle
    /\ ~cancel
    /\ cancel' = TRUE
    /\ UNCHANGED <<pc, WEBHOOK_URL, previous_cap, locals, out, posts, cycle,
                   exit, sampled, recorded>>

\* SIGINT during asyncio.sleep, or a pending cancellation reaching it:
\* CancelledError ends main, asyncio.run raises KeyboardInterrupt
InterruptSleep ==
    /\ pc = "sleep"
    /\ pc' = "exited"
    /\ exit' = "KeyboardInterrupt"
    /\ cancel' = FALSE
    /\ UNCHANGED <<WEBHOOK_URL, previous_cap, locals, out, posts, cycle, sampled, recorded>>

\* main returned, so asyncio.run returns and the interpreter ends with
\* status 0; a KeyboardInterrupt leaving asyncio.run ends it with a
\* traceback and a nonzero status
ExitsZero == exit = "returned"

Outcomes == {"ok", "status", "raised"}

Next ==
    \/ Connect
    \/ ConnectFail
    \/ \E wei \in Caps : GetCurrentCap(wei)
    \/ GetCurrentCapFail
    \/ GetTotalAssets
    \/ GetTotalAssetsFail
    \/ GetMaxTokenSupply
    \/ GetMaxTokenSupplyFail
    \/ CheckInitial
    \/ CheckNoChange
    \/ CheckZeroDivision
    \/ CheckChanged
    \/ NotifyNone
    \/ \E outcome \in Outcomes : Notify(outcome)
    \/ Commit
    \/ Sleep
    \/ InterruptRaised
    \/ InterruptDeferred
    \/ InterruptSleep

Spec == Init /\ [][Next]_vars

\* the timer of asyncio.sleep fires: a sleeping process that is not
\* interrupted goes on to the next call
FairSpec == Spec /\ WF_vars(Sleep)

\* the end-to-end scenario: maxDepositAmount() returns ScenarioCaps in turn
\* and every read succeeds
ScenarioGetCurrentCap ==
    /\ cycle \in DOMAIN ScenarioCaps
    /\ GetCurrentCap(ScenarioCaps[cycle])

ScenarioNext ==
    \/ Connect
    \/ ConnectFail
    \/ ScenarioGetCurrentCap
    \/ GetTotalAssets
    \/ GetMaxTokenSupply
    \/ CheckInitial
    \/ CheckNoChange
    \/ CheckChanged
    \/ NotifyNone
    \/ \E outcome \in Outcomes : Notify(outcome)
    \/ Commit
    \/ Sleep
    \/ InterruptRaised
    \/ InterruptDeferred
    \/ InterruptSleep

ScenarioSpec == Init /\ [][ScenarioNext]_vars

\* runs in which every read succeeds and maxDepositAmount() returns any of
\* ArithCaps
ArithGetCurrentCap == \E wei \in ArithCaps : GetCurrentCap(wei)

ArithNext ==
    \/ Connect
    \/ ConnectFail
    \/ ArithGetCurrentCap
    \/ GetTotalAssets
    \/ GetMaxTokenSupply
    \/ CheckInitial
    \/ CheckNoChange
    \/ CheckChanged
    \/ NotifyNone
    \/ \E outcome \in Outcomes : Notify(outcome)
    \/ Commit
    \/ Sleep
    \/ InterruptRaised
    \/ InterruptDeferred
    \/ InterruptSleep

ArithSpec == Init /\ [][ArithNext]_vars

----------------------------------------------------------------------------
(* What a call of check_cap_change did, read off the state.                *)

\* the lines of the handler at the end of check_cap_change
Errors == SelectSeq(out, LAMBDA l : l.k = "error")

FetchErrors == SelectSeq(out, LAMBDA l : l.k = "fetch_error")

\* the call of check_cap_change is over
CycleDone == pc = "sleep"

\* get_current_cap succeeded in this call
ReadOk == CheckLines # <<>>

\* what it returned
Sample == CheckLines[1].cap

----------------------------------------------------------------------------
(* Claims.                                                                 *)

\* C1: in a call whose cap read succeeds, a ChangeEvent is emitted if and
\* only if the cap read differs, by exact value, from the cap read in the
\* preceding call whose read succeeded; this for every value, 0 and values
\* one wei apart included.
C1_EventIffSampleDiffers ==
    (CycleDone /\ ReadOk /\ sampled # None)
        => ((Events # <<>>) <=> (Sample # sampled))

\* C2: when the stored cap is 0 and the cap read is not, the comparison
\* raises no division error: a ChangeEvent with change = new cap is printed
\* and the call ends with the new cap stored.
C2_ZeroOldCapReported ==
    [][(/\ pc = "compare"
        /\ previous_cap = FZero
        /\ float[current_cap] # FZero
        /\ pc' \notin {"compare", "exited"})
           => (/\ Errors' = <<>>
               /\ Len(Events') = 1
               /\ Events'[1].ev.change = float[current_cap]
               /\ pc' = "notify")]_vars

\* C3: at the end of every call whose cap read succeeded, previous_cap is
\* the cap read in that call.
C3_StateIsLastSample ==
    (CycleDone /\ ReadOk) => previous_cap = float[Sample]

\* C4: a call whose cap read fails emits no ChangeEvent, makes no webhook
\* request and leaves previous_cap as it was, unset included.
C4_FailedReadChangesNothing ==
    [][(FetchErrors = <<>> /\ FetchErrors' # <<>>)
           => (/\ CycleDone'
               /\ previous_cap' = previous_cap
               /\ Events' = <<>>
               /\ posts' = <<>>)]_vars

C4_Witness ==
    /\ CycleDone
    /\ FetchErrors # <<>>
    /\ previous_cap # None
    /\ cycle > 1

\* C5: an error inside check_cap_change never ends the process (only an
\* interrupt leaves a call for good); a call that ends in the error handler
\* leaves the process sleeping, and unless it is interrupted the next call
\* begins; so after any number of failed calls in a row.
C5_FailedCycleIsFollowed ==
    /\ [][(InCycle /\ pc' = "exited") => out'[Len(out')].k = "stopping"]_vars
    /\ [][(Errors = <<>> /\ Errors' # <<>>) => CycleDone']_vars
    /\ \A n \in 1..(MaxCycles - 1) :
          (CycleDone /\ Errors # <<>> /\ cycle = n /\ ~cancel)
              ~> ((pc = "get_cap" /\ cycle = n + 1) \/ exit = "KeyboardInterrupt")

\* two failed calls in a row and the third call has begun
C5_Witness ==
    /\ pc = "get_cap"
    /\ cycle = 3
    /\ sampled = None
    /\ previous_cap = None

\* C6: once a ChangeEvent is emitted, previous_cap is assigned the new cap
\* only after send_webhook_notification has returned, and it is assigned
\* whatever that call did (no webhook, 2xx, other status, exception).
C6_CommitFollowsNotification ==
    /\ [](Events # <<>> =>
            /\ pc \in {"notify", "commit"} => previous_cap = Events[1].ev.old_cap
            /\ CycleDone => previous_cap = Events[1].ev.new_cap)
    /\ [][(Events # <<>> /\ previous_cap' # previous_cap)
             => (pc = "commit" /\ previous_cap' = Events[1].ev.new_cap)]_vars

\* a failed webhook request, and the new cap stored all the same
C6_Witness ==
    /\ CycleDone
    /\ Events # <<>>
    /\ posts # <<>>
    /\ posts[1].outcome = "raised"
    /\ previous_cap = Events[1].ev.new_cap

\* C7: when total assets or max token supply cannot be read but the cap
\* can, the call completes without error; if the cap differs from the one
\* read before, the ChangeEvent is emitted with the unread fields marked
\* N/A and previous_cap is updated.
C7_DegradedReadsStillReport ==
    (/\ CycleDone
     /\ ReadOk
     /\ (CheckLines[1].total_assets = NA \/ CheckLines[1].max_supply = NA))
        => /\ Errors = <<>>
           /\ (sampled # None /\ Sample # sampled)
                => /\ Len(Events) = 1
                   /\ Events[1].ev.total_assets = CheckLines[1].total_assets
                   /\ Events[1].ev.max_supply = CheckLines[1].max_supply
                   /\ previous_cap = float[Sample]

\* C8: the first call whose cap read succeeds prints the initial cap, sets
\* previous_cap to the cap read and emits no ChangeEvent, whatever calls
\* failed before it and whatever the value read.
C8_FirstSampleInitializes ==
    (CycleDone /\ ReadOk /\ sampled = None)
        => /\ Len(Initials) = 1
           /\ Initials[1].cap = Sample
           /\ previous_cap = float[Sample]
           /\ Events = <<>>
           /\ Errors = <<>>
           /\ posts = <<>>

\* the first successful read comes after a failed call and returns 0
C8_Witness ==
    /\ CycleDone
    /\ ReadOk
    /\ sampled = None
    /\ cycle > 1
    /\ Sample.num = <<>>
    /\ previous_cap = FZero

\* C9: a call that reads the same cap as the preceding successful call emits
\* no ChangeEvent and makes no webhook request; a call emits at most one.
C9_RepeatedSampleIsSilent ==
    /\ Len(Events) <= 1
    /\ (CycleDone /\ ReadOk /\ sampled # None /\ Sample = sampled)
          => (Events = <<>> /\ posts = <<>>)

\* the value had changed (from 1 ether to 2 ether) and is read again
C9_Witness ==
    /\ CycleDone
    /\ ReadOk
    /\ cycle >= 3
    /\ Sample = sampled
    /\ Sample = from_wei(Wei(2, 18))
    /\ previous_cap = float[Sample]
    /\ Events = <<>>

\* C10: caps 1,000,000; 1,000,000; 1,200,000; 1,200,000 with every read
\* succeeding: call 1 initializes and emits nothing, call 2 emits nothing,
\* call 3 emits one ChangeEvent (old 1,000,000, new 1,200,000, change
\* +200,000, 20 percent), makes one webhook request if a webhook is
\* configured and stores 1,200,000, call 4 emits nothing.
C10_EndToEnd ==
    CycleDone =>
        /\ cycle = 1 => /\ Len(Initials) = 1
                        /\ Events = <<>>
                        /\ posts = <<>>
                        /\ previous_cap = FInt(1000000)
        /\ cycle = 2 => /\ Events = <<>>
                        /\ posts = <<>>
                        /\ previous_cap = FInt(1000000)
        /\ cycle = 3 => /\ Len(Events) = 1
                        /\ Events[1].ev.old_cap = FInt(1000000)
                        /\ Events[1].ev.new_cap = FInt(1200000)
                        /\ Events[1].ev.change = FInt(200000)
                        /\ Events[1].ev.change_percent = FInt(20)
                        /\ Len(posts) = (IF WEBHOOK_URL = None THEN 0 ELSE 1)
                        /\ previous_cap = FInt(1200000)
        /\ cycle = 4 => /\ Events = <<>>
                        /\ posts = <<>>
                        /\ previous_cap = FInt(1200000)
        /\ Errors = <<>>

C10_Witness ==
    /\ CycleDone
    /\ cycle = 4
    /\ WEBHOOK_URL # None
    /\ previous_cap = FInt(1200000)

\* C11: without a webhook destination no HTTP request is ever made, and a
\* call of check_cap_change that finds the cap changed still prints the
\* change block.
C11_ChangeBlockWithoutWebhook ==
    /\ [](WEBHOOK_URL = None => posts = <<>>)
    /\ [][(/\ WEBHOOK_URL = None
           /\ pc = "compare"
           /\ ~IsInitial
           /\ IsChanged
           /\ pc' \notin {"compare", "exited"})
          => (/\ Len(Events') = 1
              /\ posts' = <<>>)]_vars

\* C12: with a webhook destination every change block is followed by one
\* requests.post carrying that block's data, whatever the request's outcome,
\* and nothing else is ever posted.
C12_OnePostPerEvent ==
    WEBHOOK_URL # None =>
        /\ Len(posts) <= Len(Events)
        /\ Len(Events) <= 1
        /\ \A i \in DOMAIN posts : /\ posts[i].data = Events[i].ev
                                   /\ posts[i].url = WEBHOOK_URL
        /\ pc \in {"commit", "sleep"} => Len(posts) = Len(Events)
        /\ pc = "notify" => posts = <<>>

C12_Witness ==
    /\ WEBHOOK_URL # None
    /\ CycleDone
    /\ Len(Events) = 1
    /\ Len(posts) = 1
    /\ posts[1].outcome # "ok"
    /\ previous_cap = Events[1].ev.new_cap

\* C13: when the RPC endpoint is not connected at construction, the process
\* ends at once in a failure state (a nonzero exit status) without having
\* called check_cap_change.
C13_StartupFailureIsAFailure ==
    (pc = "exited" /\ SelectSeq(out, LAMBDA l : l.k = "fatal") # <<>>) =>
        /\ ~ExitsZero
        /\ cycle = 0
        /\ previous_cap = None

\* C14: an interrupt after startup, during the sleep or during a call of
\* check_cap_change, ends the process gracefully: the final line of the
\* output is the stopping message and the exit status is 0; the handler of
\* check_cap_change never prints an error for it, and previous_cap is left
\* as None or as a cap that was read.
C14_InterruptShutsDownGracefully ==
    /\ [](pc = "exited" /\ cycle >= 1 =>
              /\ ExitsZero
              /\ out # <<>>
              /\ out[Len(out)].k = "stopping")
    /\ [][pc' = "exited" /\ pc # "exited" => Len(Errors') = Len(Errors)]_vars
    /\ [](previous_cap \in {None} \cup Floats)

\* C15: after a successful startup the first call of check_cap_change begins
\* at once, before any sleep; a further call begins only when a sleep ends,
\* and every call that ends is followed by a sleep, so calls and sleeps
\* alternate; a sleep that is not interrupted ends with the next call, and
\* after startup the process ends only by an interrupt.
C15_CyclesAndSleepsAlternate ==
    /\ [][pc = "main" /\ pc' # "exited" => pc' = "get_cap" /\ cycle' = 1]_vars
    /\ [][cycle' # cycle =>
              /\ cycle' = cycle + 1
              /\ pc \in {"main", "sleep"}
              /\ pc' = "get_cap"]_vars
    /\ [][pc = "sleep" /\ pc' # "sleep" =>
              \/ pc' = "get_cap" /\ cycle' = cycle + 1
              \/ pc' = "exited"]_vars
    /\ [][InCycle /\ ~InCycle' => pc' \in {"sleep", "exited"}]_vars
    /\ [][pc' = "exited" /\ pc # "exited" /\ cycle >= 1 =>
              \/ exit' = "KeyboardInterrupt"
              \/ out'[Len(out')].k = "stopping"]_vars
    /\ [](pc = "sleep" /\ ~cancel /\ cycle < MaxCycles => ENABLED Sleep)

C15_Witness ==
    /\ pc = "get_cap"
    /\ cycle = 3
    /\ out = <<>>
    /\ ~cancel

\* a log line that carries a timestamp
Timestamped(l) == "ts" \in DOMAIN l

\* the lines a step adds to the output
NewLines == SubSeq(out', Len(out) + 1, Len(out'))

\* steps in which something failed
CapReadFails == Len(FetchErrors') > Len(FetchErrors)
OptionalReadFails ==
    \/ total_assets' = NA /\ total_assets # NA
    \/ max_supply' = NA /\ max_supply # NA
DeliveryFails ==
    /\ Len(posts') > Len(posts)
    /\ posts'[Len(posts')].outcome # "ok"
StartupFails == pc = "main" /\ pc' = "exited"

\* C16 as stated: every failure of the cap read, of the total-assets or
\* max-supply read, of the webhook delivery and of the startup connection
\* produces a log line that carries a timestamp.
C16_EveryErrorIsTimestamped ==
    [][(CapReadFails \/ OptionalReadFails \/ DeliveryFails \/ StartupFails)
       => \E i \in DOMAIN NewLines : Timestamped(NewLines[i])]_vars

\* C16, amended: a failed cap read produces its own line without a timestamp
\* and the handler's error line with one, and every error line of the handler
\* carries a timestamp; a failed webhook delivery and a failed startup
\* connection each produce one line without a timestamp; a failed
\* total-assets or max-supply read produces no line, the value is shown as
\* N/A in the timestamped check line if the call gets that far.
C16_WhichErrorsAreTimestamped ==
    /\ [][CapReadFails =>
              /\ Len(NewLines) = 2
              /\ ~Timestamped(NewLines[1])
              /\ NewLines[2].k = "error"
              /\ Timestamped(NewLines[2])]_vars
    /\ [](\A i \in DOMAIN Errors : Timestamped(Errors[i]))
    /\ [][DeliveryFails =>
              /\ Len(NewLines) = 1
              /\ NewLines[1].k \in {"notify_status", "notify_error"}
              /\ ~Timestamped(NewLines[1])]_vars
    /\ [][StartupFails =>
              /\ out' = <<[k |-> "fatal"]>>
              /\ ~Timestamped(out'[1])]_vars
    /\ [][OptionalReadFails => NewLines = <<>>]_vars
    /\ [](\A i \in DOMAIN CheckLines : Timestamped(CheckLines[i]))

C16_Witness ==
    /\ CycleDone
    /\ cycle = 1
    /\ Len(FetchErrors) = 1
    /\ Len(Errors) = 1
    /\ Errors[1].ts = 1

\* C17: in every change block, change is new_cap - old_cap and
\* change_percent is change / old_cap * 100, in float arithmetic, with
\* old_cap non-zero; from 100 to 150 that is +50 and 50 percent, from 100 to
\* 90 it is -10 and -10 percent; the data posted are the block's.
C17_ChangeArithmetic ==
    /\ \A i \in DOMAIN Events :
           LET ev == Events[i].ev
           IN  /\ ev.change = FSub(ev.new_cap, ev.old_cap)
               /\ ev.old_cap # FZero
               /\ ev.change_percent = FMulInt(FDiv(ev.change, ev.old_cap), 100)
               /\ (ev.old_cap = FInt(100) /\ ev.new_cap = FInt(150)) =>
                      /\ ev.change = FInt(50)
                      /\ ev.change_percent = FInt(50)
               /\ (ev.old_cap = FInt(100) /\ ev.new_cap = FInt(90)) =>
                      /\ ev.change = FInt(-10)
                      /\ ev.change_percent = FInt(-10)
    /\ \A i \in DOMAIN posts : posts[i].data = Events[i].ev

C17_Witness ==
    /\ CycleDone
    /\ Len(Events) = 1
    /\ Events[1].ev.old_cap = FInt(100)
    /\ Events[1].ev.new_cap = FInt(90)
    /\ Events[1].ev.change_percent = FInt(-10)
    /\ previous_cap = FInt(90)

\* C18: previous_cap is None until a call of check_cap_change sets it; once
\* set it is never None again; and it is assigned only in the first-sample
\* branch and after the notification in the changed branch, each time to
\* the cap just read.
C18_PreviousCapWrites ==
    /\ [](pc = "main" => previous_cap = None)
    /\ [](previous_cap = None => Initials = <<>> \/ pc = "exited")
    /\ [][previous_cap # None => previous_cap' # None]_vars
    /\ [][previous_cap' # previous_cap =>
              /\ previous_cap' = float[current_cap]
              /\ \/ pc = "compare" /\ IsInitial /\ Len(Initials') = 1
                 \/ pc = "commit" /\ Len(Events) = 1]_vars

C18_Witness ==
    /\ CycleDone
    /\ cycle = 3
    /\ Errors # <<>>
    /\ sampled = from_wei(Wei(2, 18))
    /\ previous_cap = FInt(2)

\* C19: a call of check_cap_change that ends in its error handler, after a
\* failed cap read or after an error in the comparison, leaves previous_cap
\* as it was when the call began and has made no HTTP request.
C19_HandlerLeavesStateAndPostsNothing ==
    /\ [][Len(Errors') > Len(Errors) =>
              /\ previous_cap' = previous_cap
              /\ posts' = <<>>
              /\ pc' = "sleep"]_vars
    /\ [][InCycle /\ previous_cap' # previous_cap =>
              /\ pc' = "sleep"
              /\ Errors' = <<>>]_vars
    /\ [](Errors # <<>> => posts = <<>> /\ Events = <<>>)

C19_Witness ==
    /\ CycleDone
    /\ WEBHOOK_URL # None
    /\ Errors # <<>>
    /\ FetchErrors = <<>>
    /\ ReadOk
    /\ previous_cap = FZero
    /\ sampled.num = <<>>

\* C20: the change blocks form a chain: the old cap of a block is the cap
\* last reported before it, which is the initial cap for the first block and
\* the new cap of the block before it for every later one, whatever calls
\* failed, were degraded or found no change in between; and the new cap of
\* a block differs from its old cap.
C20_EventsFormAChain ==
    \A i \in DOMAIN Events :
        /\ recorded # None
        /\ Events[i].ev.old_cap = recorded
        /\ Events[i].ev.new_cap # Events[i].ev.old_cap

C20_Witness ==
    /\ CycleDone
    /\ cycle = 4
    /\ Len(Events) = 1
    /\ sampled = from_wei(Wei(2, 18))
    /\ recorded = FInt(2)
    /\ Events[1].ev.old_cap = FInt(2)
    /\ Events[1].ev.new_cap = FInt(1)

====
